---- MODULE Spec2Model ----
(***************************************************************************)
(* Hospital-management backend (src/main.py, src/schemas.py).              *)
(*                                                                         *)
(* Every handler of main.py is an `async def` that never awaits, so one    *)
(* request runs to completion before the next starts: one action per       *)
(* handler.  The state is the document store (one insertion-ordered        *)
(* sequence of documents per collection), the ObjectId generator's         *)
(* counter, and the last request and its response.                         *)
(*                                                                         *)
(* Strings whose characters the code inspects (identifiers parsed by       *)
(* ObjectId, e-mail addresses split at "@") are sequences of one-character *)
(* strings; all other strings are TLA+ strings.  Floats are modelled by    *)
(* exact arithmetic; the inputs are chosen so that every value computed    *)
(* is an integer.                                                          *)
(***************************************************************************)
EXTENDS Integers, Sequences, FiniteSets, TLC

VARIABLES db, nextOid, request, response

vars == <<db, nextOid, request, response>>

\* ---------------------------------------------------------------- bounds

\* Documents the API may insert in one behaviour.
MaxDocs == 2

\* ------------------------------------------------------- Python values

\* Python's None where a TLA+ string is expected, and where a character
\* sequence is expected (no real value is spelled like either).
None == "<None>"
NoneSeq == <<"<None>">>

\* The result of find_one when nothing matches (Python's None).
NoDoc == [missing |-> TRUE]

\* Truthiness of an Optional[str], as in `if body.roomtype_name:`.
Truthy(s) == s # None /\ s # ""
TruthySeq(s) == s # NoneSeq /\ s # <<>>

Max(a, b) == IF a >= b THEN a ELSE b

\* dict.get(field, default)
Get(doc, field, default) == IF field \in DOMAIN doc THEN doc[field] ELSE default

\* ------------------------------------------------------------ ObjectId

\* A 24-character hexadecimal string denotes the 12 bytes of an ObjectId.
OidHexLen == 24

HexChars == <<"0", "1", "2", "3", "4", "5", "6", "7",
              "8", "9", "a", "b", "c", "d", "e", "f">>
UpperHex == <<"A", "B", "C", "D", "E", "F">>

\* The value of each hexadecimal digit, in either case.
HexTable ==
    [c \in {HexChars[i] : i \in 1..16} \cup {UpperHex[i] : i \in 1..6} |->
        IF \E i \in 1..16 : HexChars[i] = c
        THEN (CHOOSE i \in 1..16 : HexChars[i] = c) - 1
        ELSE (CHOOSE i \in 1..6 : UpperHex[i] = c) + 9]

IsHex(c) == c \in DOMAIN HexTable

HexVal(c) == HexTable[c]

\* ObjectId.is_valid(s) for a str.
IsValidOid(s) == Len(s) = OidHexLen /\ \A i \in 1..Len(s) : IsHex(s[i])

\* ObjectId(s) for a valid s: the bytes.
ObjectId(s) ==
    [i \in 1..(OidHexLen \div 2) |-> 16 * HexVal(s[2 * i - 1]) + HexVal(s[2 * i])]

\* str(oid): lower-case hexadecimal.
OidStr(o) ==
    [i \in 1..OidHexLen |->
        IF i % 2 = 1 THEN HexChars[(o[(i + 1) \div 2] \div 16) + 1]
                     ELSE HexChars[(o[i \div 2] % 16) + 1]]

\* The n-th ObjectId the running process generates; documents that were in
\* the store before the process started carry an older first byte.
GenOid(n) == [i \in 1..(OidHexLen \div 2) |-> IF i = 1 THEN 102 ELSE IF i = 12 THEN n ELSE 0]
SeedOid(n) == [i \in 1..(OidHexLen \div 2) |-> IF i = 1 THEN 101 ELSE IF i = 12 THEN n ELSE 0]

\* -------------------------------------------------------- the store

Collections == {"user", "doctorprofile", "patientprofile", "availability",
                "unavailability", "appointment", "prescription", "billing",
                "operation", "roomtype", "insurancepolicy"}

EmptyDb == [c \in Collections |-> <<>>]

\* A document matches an equality filter.
Matches(doc, filter) ==
    \A f \in DOMAIN filter : f \in DOMAIN doc /\ doc[f] = filter[f]

\* collection.find(filter): the matching documents in natural order.
Find(store, coll, filter) == SelectSeq(store[coll], LAMBDA d : Matches(d, filter))

\* collection.find_one(filter): the first match, or None.
FindOne(store, coll, filter) ==
    LET r == Find(store, coll, filter) IN IF r = <<>> THEN NoDoc ELSE Head(r)

\* A faulty update: the fields replace the document instead of being set in it.
SetFields_Replace(doc, fields) == fields @@ [_id |-> doc._id]

\* collection.update_one(filter, {"$set": fields}): the first match gets the
\* fields set (added when absent); nothing happens without a match.
SetFields(doc, fields) ==
    [f \in DOMAIN doc \cup DOMAIN fields |->
        IF f \in DOMAIN fields THEN fields[f] ELSE doc[f]]

UpdateOne(store, coll, filter, fields) ==
    LET hits == {i \in 1..Len(store[coll]) : Matches(store[coll][i], filter)} IN
    IF hits = {} THEN store
    ELSE LET k == CHOOSE i \in hits : \A j \in hits : i <= j IN
         [store EXCEPT ![coll][k] = SetFields(@, fields)]

\* create_document(collection, fields): inserts the fields under a fresh
\* identifier; the caller gets str(identifier).
CreateDocument(store, n, coll, fields) ==
    [store EXCEPT ![coll] = Append(@, fields @@ [_id |-> GenOid(n)])]

CreatedId(n) == OidStr(GenOid(n))

\* get_documents(collection, filter)
GetDocuments(store, coll, filter) == Find(store, coll, filter)

\* d["_id"] = str(d["_id"]) over a result list.
Stringified(docs) == [i \in 1..Len(docs) |-> [docs[i] EXCEPT !._id = OidStr(@)]]

\* ------------------------------------------------------------ responses

Ok(body) == [status |-> 200, body |-> body]
HTTPException(code, detail) == [status |-> code, body |-> [detail |-> detail]]
\* An exception no handler catches (bson's InvalidId): the framework's 500.
ServerError == [status |-> 500, body |-> [detail |-> "Internal Server Error"]]

\* What a handler leaves behind: the store, the generator's counter and the
\* response.
Result(store, n, resp) == [db |-> store, nextOid |-> n, response |-> resp]

\* ---------------------------------------------------------------- login

\* req.email.split("@")[0]
LocalPart(email) ==
    LET ats == {i \in 1..Len(email) : email[i] = "@"} IN
    IF ats = {} THEN email
    ELSE SubSeq(email, 1, (CHOOSE i \in ats : \A j \in ats : i <= j) - 1)

\* A faulty lookup: the profiles are searched instead of the users.
LoginLookup_WrongCollection(store, email, role) ==
    FindOne(store, "doctorprofile", [email |-> email, role |-> role])

LoginLookup(store, email, role) ==
    FindOne(store, "user", [email |-> email, role |-> role])

login(store, n, req) ==
    LET user == LoginLookup(store, req.email, req.role) IN
    IF user # NoDoc
    THEN Result(store, n, Ok([user |-> [user EXCEPT !._id = OidStr(@)]]))
    ELSE LET s1 == CreateDocument(store, n, "user",
                       [name |-> LocalPart(req.email), email |-> req.email,
                        role |-> req.role])
             user_id == CreatedId(n)
             created == FindOne(s1, "user", [_id |-> ObjectId(user_id)])
             s2 == IF req.role = "doctor"
                   THEN CreateDocument(s1, n + 1, "doctorprofile",
                            [user_id |-> user_id, specialty |-> None,
                             rate_per_point |-> 100])
                   ELSE IF req.role = "patient"
                   THEN CreateDocument(s1, n + 1, "patientprofile",
                            [user_id |-> user_id])
                   ELSE s1
             n2 == IF req.role \in {"doctor", "patient"} THEN n + 2 ELSE n + 1
         IN Result(s2, n2, Ok([user |-> [created EXCEPT !._id = OidStr(@)]]))

\* -------------------------------------------------------------- doctors

list_doctors(store, n) ==
    Result(store, n, Ok(Stringified(GetDocuments(store, "user", [role |-> "doctor"]))))

doctor_appointments(store, n, doctor_id) ==
    Result(store, n,
           Ok(Stringified(GetDocuments(store, "appointment", [doctor_id |-> doctor_id]))))

\* A faulty count: every appointment of the doctor, whatever its status.
CompletedOf_AnyStatus(store, doctor_id) ==
    Find(store, "appointment", [doctor_id |-> doctor_id])

CompletedOf(store, doctor_id) ==
    Find(store, "appointment", [doctor_id |-> doctor_id, status |-> "completed"])

RateOf(profile) ==
    IF profile # NoDoc THEN Get(profile, "rate_per_point", 100) ELSE 100

doctor_stats(store, n, doctor_id) ==
    LET count == Len(CompletedOf(store, doctor_id))
        points == count
        profile == FindOne(store, "doctorprofile", [user_id |-> doctor_id])
        rate == RateOf(profile)
        salary == points * rate
    IN Result(store, n,
              Ok([treated_patients |-> count, points |-> points, salary |-> salary]))

set_availability(store, n, doctor_id, body) ==
    Result(CreateDocument(store, n, "availability",
               [doctor_id |-> doctor_id, week_start |-> body.week_start,
                available_slots |-> body.available_slots]),
           n + 1, Ok([status |-> "ok"]))

add_unavailability(store, n, doctor_id, body) ==
    Result(CreateDocument(store, n, "unavailability",
               [doctor_id |-> doctor_id, date |-> body.date, reason |-> body.reason]),
           n + 1, Ok([status |-> "ok"]))

doctor_patients(store, n, doctor_id) ==
    LET pats == Find(store, "appointment", [doctor_id |-> doctor_id])
        patient_ids == {pats[i].patient_id : i \in 1..Len(pats)}
        oids == {ObjectId(pid) : pid \in {p \in patient_ids : IsValidOid(p)}}
        patients == SelectSeq(store["user"], LAMBDA u : u._id \in oids)
    IN Result(store, n, Ok(Stringified(patients)))

patient_history(store, n, patient_id) ==
    LET appts == Find(store, "appointment", [patient_id |-> patient_id])
        prescriptions == Find(store, "prescription", [patient_id |-> patient_id])
    IN Result(store, n, Ok([appointments |-> Stringified(appts),
                            prescriptions |-> Stringified(prescriptions)]))

\* ------------------------------------------------------------- patients

list_patients(store, n) ==
    Result(store, n, Ok(Stringified(GetDocuments(store, "user", [role |-> "patient"]))))

NewAppointmentStatus == "scheduled"

create_appointment(store, n, patient_id, body) ==
    Result(CreateDocument(store, n, "appointment",
               [patient_id |-> patient_id, doctor_id |-> body.doctor_id,
                scheduled_at |-> body.scheduled_at, reason |-> body.reason,
                status |-> NewAppointmentStatus,
                payment_method |-> body.payment_method,
                payment_status |-> "pending"]),
           n + 1, Ok([appointment_id |-> CreatedId(n)]))

get_patient_appointments(store, n, patient_id) ==
    Result(store, n,
           Ok(Stringified(GetDocuments(store, "appointment", [patient_id |-> patient_id]))))

\* -------------------------------------------------------- prescriptions

add_prescription(store, n, doctor_id, body) ==
    IF ~IsValidOid(body.appointment_id) THEN Result(store, n, ServerError)
    ELSE
    LET appt == FindOne(store, "appointment", [_id |-> ObjectId(body.appointment_id)]) IN
    IF appt = NoDoc THEN Result(store, n, HTTPException(404, "Appointment not found"))
    ELSE Result(CreateDocument(store, n, "prescription",
                    [appointment_id |-> body.appointment_id, doctor_id |-> doctor_id,
                     patient_id |-> appt.patient_id, notes |-> body.notes,
                     medications |-> body.medications,
                     follow_up_date |-> body.follow_up_date]),
                n + 1, Ok([prescription_id |-> CreatedId(n)]))

get_prescription_by_appointment(store, n, appointment_id) ==
    Result(store, n,
           Ok(Stringified(Find(store, "prescription", [appointment_id |-> appointment_id]))))

\* ---------------------------------------------------- payments & billing

\* A faulty update: the status field is written instead of payment_status.
PaymentSet_Status(body) == [status |-> body.status]

\* {"$set": {"payment_status": body.status}}
PaymentSet(body) == [payment_status |-> body.status]

update_payment(store, n, appointment_id, body) ==
    IF ~IsValidOid(appointment_id) THEN Result(store, n, ServerError)
    ELSE Result(UpdateOne(store, "appointment", [_id |-> ObjectId(appointment_id)],
                          PaymentSet(body)),
                n, Ok([status |-> "ok"]))

EmptyDict == [k \in {} |-> k]

\* A faulty discount: the percentage taken for a fraction.
InsuranceDiscount_AsFraction(subtotal, coverage) == subtotal * coverage

\* discount = subtotal * (coverage / 100.0)
InsuranceDiscount(subtotal, coverage) == (subtotal * coverage) \div 100

\* total = max(0.0, subtotal - discount)
BillTotal(subtotal, discount) == Max(0, subtotal - discount)

\* A faulty note: the request's room is not tested for being given.
InsuranceNote_AnyRequest(pol, roomtype_name) ==
    IF LET allowed == Get(pol, "allowed_roomtypes", <<>>)
       IN ~(\E i \in 1..Len(allowed) : allowed[i] = roomtype_name)
    THEN "insurance_note" :> "Selected room type not covered by insurance"
    ELSE EmptyDict

\* The advisory note of the room eligibility check.
InsuranceNote(pol, roomtype_name) ==
    IF Truthy(roomtype_name)
       /\ LET allowed == Get(pol, "allowed_roomtypes", <<>>)
          IN ~(\E i \in 1..Len(allowed) : allowed[i] = roomtype_name)
    THEN "insurance_note" :> "Selected room type not covered by insurance"
    ELSE EmptyDict

\* The response and the Billing document once the charges are known.
BillWith(store, n, appointment_id, subtotal, details, discount) ==
    LET total == BillTotal(subtotal, discount) IN
    Result(CreateDocument(store, n, "billing",
               [appointment_id |-> appointment_id, subtotal |-> subtotal,
                insurance_discount |-> discount, total |-> total,
                details |-> details]),
           n + 1,
           Ok([billing_id |-> CreatedId(n), subtotal |-> subtotal,
               discount |-> discount, total |-> total, details |-> details]))

\* The insurance check via the patient's policy, then the bill.
BillInsured(store, n, appointment_id, body, appt, subtotal, details) ==
    LET patient == FindOne(store, "patientprofile", [user_id |-> appt.patient_id]) IN
    IF patient # NoDoc /\ TruthySeq(Get(patient, "insurance_policy_id", NoneSeq))
    THEN IF ~IsValidOid(patient.insurance_policy_id) THEN Result(store, n, ServerError)
         ELSE LET pol == FindOne(store, "insurancepolicy",
                                 [_id |-> ObjectId(patient.insurance_policy_id)]) IN
              IF pol # NoDoc
              THEN BillWith(store, n, appointment_id, subtotal,
                            details @@ InsuranceNote(pol, body.roomtype_name),
                            InsuranceDiscount(subtotal, Get(pol, "coverage_percent", 0)))
              ELSE BillWith(store, n, appointment_id, subtotal, details, 0)
    ELSE BillWith(store, n, appointment_id, subtotal, details, 0)

\* The room charge, then the insurance check.
BillRoom(store, n, appointment_id, body, appt, subtotal, details) ==
    IF Truthy(body.roomtype_name)
    THEN LET room == FindOne(store, "roomtype", [name |-> body.roomtype_name]) IN
         IF room = NoDoc
         THEN Result(store, n, HTTPException(404, "Room type not found"))
         ELSE BillInsured(store, n, appointment_id, body, appt,
                  subtotal + Get(room, "price_per_day", 0),
                  details @@ ("room" :> [name |-> Get(room, "name", None),
                                         price |-> Get(room, "price_per_day", 0)]))
    ELSE BillInsured(store, n, appointment_id, body, appt, subtotal, details)

\* A faulty order: the bill is stored before the operation is looked up.
BillOperation_PersistFirst(store, n, appointment_id, body, appt) ==
    LET early == CreateDocument(store, n, "billing",
                     [appointment_id |-> appointment_id, subtotal |-> 0,
                      insurance_discount |-> 0, total |-> 0, details |-> EmptyDict])
    IN
    IF TruthySeq(body.operation_id)
    THEN IF ~IsValidOid(body.operation_id) THEN Result(store, n, ServerError)
         ELSE LET op == FindOne(store, "operation", [_id |-> ObjectId(body.operation_id)]) IN
              IF op = NoDoc
              THEN Result(early, n + 1, HTTPException(404, "Operation not found"))
              ELSE BillRoom(store, n, appointment_id, body, appt,
                       0 + Get(op, "base_price", 0),
                       "operation" :> [name |-> Get(op, "name", None),
                                       price |-> Get(op, "base_price", 0)])
    ELSE BillRoom(store, n, appointment_id, body, appt, 0, EmptyDict)

\* The operation charge, then the room charge.
BillOperation(store, n, appointment_id, body, appt) ==
    IF TruthySeq(body.operation_id)
    THEN IF ~IsValidOid(body.operation_id) THEN Result(store, n, ServerError)
         ELSE LET op == FindOne(store, "operation", [_id |-> ObjectId(body.operation_id)]) IN
              IF op = NoDoc
              THEN Result(store, n, HTTPException(404, "Operation not found"))
              ELSE BillRoom(store, n, appointment_id, body, appt,
                       0 + Get(op, "base_price", 0),
                       "operation" :> [name |-> Get(op, "name", None),
                                       price |-> Get(op, "base_price", 0)])
    ELSE BillRoom(store, n, appointment_id, body, appt, 0, EmptyDict)

generate_bill(store, n, appointment_id, body) ==
    IF ~IsValidOid(appointment_id) THEN Result(store, n, ServerError)
    ELSE LET appt == FindOne(store, "appointment", [_id |-> ObjectId(appointment_id)]) IN
         IF appt = NoDoc
         THEN Result(store, n, HTTPException(404, "Appointment not found"))
         ELSE BillOperation(store, n, appointment_id, body, appt)

\* ---------------------------------------------------------------- admin

admin_create_appointment(store, n, body) ==
    Result(CreateDocument(store, n, "appointment",
               [patient_id |-> body.patient_id, doctor_id |-> body.doctor_id,
                scheduled_at |-> body.scheduled_at, reason |-> body.reason,
                status |-> NewAppointmentStatus, payment_status |-> "pending"]),
           n + 1, Ok([appointment_id |-> CreatedId(n)]))

admin_get_availability(store, n, doctor_id) ==
    Result(store, n,
           Ok(Stringified(Find(store, "availability", [doctor_id |-> doctor_id]))))

admin_get_billing(store, n, appointment_id) ==
    Result(store, n,
           Ok(Stringified(Find(store, "billing", [appointment_id |-> appointment_id]))))

\* {"$set": {"payment_method": "cod", "payment_status": "paid"}}
CodPaidSet == [payment_method |-> "cod", payment_status |-> "paid"]

admin_mark_cod_paid(store, n, appointment_id) ==
    IF ~IsValidOid(appointment_id) THEN Result(store, n, ServerError)
    ELSE Result(UpdateOne(store, "appointment", [_id |-> ObjectId(appointment_id)],
                          CodPaidSet),
                n, Ok([status |-> "ok"]))

\* body.model_dump() of OperationCreate, RoomCreate and InsuranceCreate: the
\* fields as given; these request models declare no range.
create_operation(store, n, body) ==
    Result(CreateDocument(store, n, "operation",
               [name |-> body.name, base_price |-> body.base_price]),
           n + 1, Ok([operation_id |-> CreatedId(n)]))

create_roomtype(store, n, body) ==
    Result(CreateDocument(store, n, "roomtype",
               [name |-> body.name, price_per_day |-> body.price_per_day]),
           n + 1, Ok([roomtype_id |-> CreatedId(n)]))

create_insurance(store, n, body) ==
    Result(CreateDocument(store, n, "insurancepolicy",
               [name |-> body.name, allowed_roomtypes |-> body.allowed_roomtypes,
                coverage_percent |-> body.coverage_percent]),
           n + 1, Ok([insurance_policy_id |-> CreatedId(n)]))

root(store, n) ==
    Result(store, n, Ok([message |-> "Hospital Management Backend running"]))

\* ------------------------------------------------------- request inputs

\* Two addresses (one without "@") under the three roles.
Ann == <<"a", "n", "n", "@", "h">>
Bob == <<"b", "o", "b">>
LoginInputs ==
    {[email |-> Ann, role |-> "doctor"], [email |-> Ann, role |-> "patient"],
     [email |-> Bob, role |-> "doctor"], [email |-> Bob, role |-> "admin"]}

\* Identifier strings ObjectId rejects: too short, and 24 characters that
\* are not all hexadecimal.
ShortId == <<"1", "2", "3">>
NonHexId == [i \in 1..OidHexLen |-> IF i = 1 THEN "g" ELSE "0"]
\* A well-formed identifier no document carries.
UnknownId == OidStr(GenOid(255))

IdsOf(store, coll) == {OidStr(store[coll][i]._id) : i \in 1..Len(store[coll])}

\* Identifiers offered where the handler parses them.
ParsedIds(store, coll) == IdsOf(store, coll) \cup {UnknownId, ShortId}
\* Identifiers offered where the handler only compares the string.
ComparedIds(store, coll) == IdsOf(store, coll) \cup {ShortId}
\* Identifiers offered where the handler takes the string as it is: the
\* users of the role, and a string that is no identifier.
RoleIds(store, role) ==
    {OidStr(store["user"][i]._id) :
        i \in {j \in 1..Len(store["user"]) : store["user"][j].role = role}}
DoctorIds(store) == RoleIds(store, "doctor") \cup {ShortId}
PatientIds(store) == RoleIds(store, "patient") \cup {ShortId}

\* generate_bill returns at the first identifier that fails, so a request
\* with a failing identifier leaves the later fields out.
BillRequests(store) ==
    LET appts == IdsOf(store, "appointment")
        ops == IdsOf(store, "operation")
    IN  [appointment_id : {UnknownId, ShortId, NonHexId},
         operation_id : {NoneSeq}, roomtype_name : {None}]
        \cup [appointment_id : appts, operation_id : {UnknownId, ShortId},
              roomtype_name : {None}]
        \cup [appointment_id : appts, operation_id : ops \cup {NoneSeq},
              roomtype_name : {None, "deluxe", "normal"}]
        \cup [appointment_id : appts, operation_id : {<<>>}, roomtype_name : {""}]

ScheduledAt == "2026-01-05T09:00"
PaymentMethods == {"online"}
PaymentStatuses == {"completed"}
RoomNames == {"deluxe", "normal"}
\* The request models of the admin endpoints take any float.
PriceInputs == {500, -100}
RoomPriceInputs == {300}
InsuranceInputs ==
    {[name |-> "basic", allowed_roomtypes |-> <<"deluxe">>, coverage_percent |-> 20],
     [name |-> "gold", allowed_roomtypes |-> <<>>, coverage_percent |-> 150]}

\* ---------------------------------------------------------------- steps

\* One request handled: the handler's result becomes the state.
Handle(req, r) ==
    /\ r.nextOid - 1 <= MaxDocs
    /\ db' = r.db
    /\ nextOid' = r.nextOid
    /\ request' = req
    /\ response' = r.response

Init ==
    /\ db = EmptyDb
    /\ nextOid = 1
    /\ request = [endpoint |-> "none"]
    /\ response = Ok([message |-> "none"])

\* ------------------------------------------------------- seeded stores

\* Stores that served before the process started (their documents carry
\* older identifiers).  The process has issued one identifier already.
SeedDoctor == OidStr(SeedOid(1))
SeedPatient == OidStr(SeedOid(2))
SeedPolicy == OidStr(SeedOid(5))

SeedUsers ==
    <<[_id |-> SeedOid(1), name |-> <<"d", "a", "n">>,
       email |-> <<"d", "a", "n", "@", "h">>, role |-> "doctor"],
      [_id |-> SeedOid(2), name |-> <<"p", "a", "t">>,
       email |-> <<"p", "a", "t", "@", "h">>, role |-> "patient"]>>

SeedAppointment(k, patient_id, doctor_id, status) ==
    [_id |-> SeedOid(k), patient_id |-> patient_id, doctor_id |-> doctor_id,
     scheduled_at |-> ScheduledAt, reason |-> None, status |-> status,
     payment_method |-> None, payment_status |-> "pending"]

\* Billing: the patient's profile has no policy field (as login writes it),
\* names no policy, an unknown one, a string that is no identifier, or the
\* stored policy, whose coverage varies (150 is a value the admin endpoint
\* admits).  Two operations (the second with a
\* price the admin endpoint admits), two room types of which the policy
\* allows one, and two appointments: the patient's, and one whose patient_id
\* names a user without a patient profile.
NoField == <<"<absent>">>
BillingScenarios ==
    {[policy_ref |-> NoField, coverage |-> 20],
     [policy_ref |-> NoneSeq, coverage |-> 20],
     [policy_ref |-> UnknownId, coverage |-> 20],
     [policy_ref |-> ShortId, coverage |-> 20],
     [policy_ref |-> SeedPolicy, coverage |-> 0],
     [policy_ref |-> SeedPolicy, coverage |-> 20],
     [policy_ref |-> SeedPolicy, coverage |-> 100],
     [policy_ref |-> SeedPolicy, coverage |-> 150]}

BillingDb(sc) ==
    [EmptyDb EXCEPT
        !["user"] = SeedUsers,
        !["patientprofile"] =
            IF sc.policy_ref = NoField
            THEN <<[_id |-> SeedOid(4), user_id |-> SeedPatient]>>
            ELSE <<[_id |-> SeedOid(4), user_id |-> SeedPatient, dob |-> None,
                    insurance_policy_id |-> sc.policy_ref]>>,
        !["insurancepolicy"] =
            <<[_id |-> SeedOid(5), name |-> "basic", allowed_roomtypes |-> <<"deluxe">>,
               coverage_percent |-> sc.coverage]>>,
        !["operation"] =
            <<[_id |-> SeedOid(6), name |-> "surgery", base_price |-> 500],
              [_id |-> SeedOid(7), name |-> "refund", base_price |-> -100]>>,
        !["roomtype"] =
            <<[_id |-> SeedOid(8), name |-> "deluxe", price_per_day |-> 300],
              [_id |-> SeedOid(9), name |-> "normal", price_per_day |-> 200]>>,
        !["appointment"] =
            <<SeedAppointment(10, SeedPatient, SeedDoctor, "scheduled"),
              SeedAppointment(11, SeedDoctor, SeedDoctor, "scheduled")>>]

InitBilling ==
    /\ \E sc \in BillingScenarios : db = BillingDb(sc)
    /\ nextOid = 2
    /\ request = [endpoint |-> "none"]
    /\ response = Ok([message |-> "none"])

\* Statistics: the doctor has a profile with a rate, or none; two
\* appointments of the doctor in any status, and a completed appointment
\* of another doctor.
Statuses == {"scheduled", "completed", "cancelled"}
StatsScenarios ==
    [rate : {0, 250}, first : {"completed"}, second : Statuses]
    \cup [rate : {250}, first : {"scheduled"}, second : {"scheduled"}]

StatsDb(sc) ==
    [EmptyDb EXCEPT
        !["user"] = SeedUsers,
        !["doctorprofile"] =
            IF sc.rate = 0 THEN <<>>
            ELSE <<[_id |-> SeedOid(3), user_id |-> SeedDoctor, specialty |-> None,
                    rate_per_point |-> sc.rate]>>,
        !["appointment"] =
            <<SeedAppointment(10, SeedPatient, SeedDoctor, sc.first),
              SeedAppointment(11, SeedPatient, SeedDoctor, sc.second),
              SeedAppointment(12, SeedPatient, ShortId, "completed")>>]

InitStats ==
    /\ \E sc \in StatsScenarios : db = StatsDb(sc)
    /\ nextOid = 2
    /\ request = [endpoint |-> "none"]
    /\ response = Ok([message |-> "none"])

\* -------------------------------------------------------------- actions

Login ==
    \E req \in LoginInputs :
        Handle([endpoint |-> "login", email |-> req.email, role |-> req.role],
               login(db, nextOid, req))

ListDoctors == Handle([endpoint |-> "list_doctors"], list_doctors(db, nextOid))

DoctorAppointments ==
    \E d \in DoctorIds(db) :
        Handle([endpoint |-> "doctor_appointments", doctor_id |-> d],
               doctor_appointments(db, nextOid, d))

DoctorStats ==
    \E d \in DoctorIds(db) :
        Handle([endpoint |-> "doctor_stats", doctor_id |-> d],
               doctor_stats(db, nextOid, d))

SetAvailability ==
    \E d \in DoctorIds(db) :
        Handle([endpoint |-> "set_availability", doctor_id |-> d],
               set_availability(db, nextOid, d,
                   [week_start |-> "2026-01-05", available_slots |-> <<ScheduledAt>>]))

AddUnavailability ==
    \E d \in DoctorIds(db) :
        Handle([endpoint |-> "add_unavailability", doctor_id |-> d],
               add_unavailability(db, nextOid, d, [date |-> "2026-01-06", reason |-> None]))

DoctorPatients ==
    \E d \in DoctorIds(db) :
        Handle([endpoint |-> "doctor_patients", doctor_id |-> d],
               doctor_patients(db, nextOid, d))

PatientHistory ==
    \E p \in PatientIds(db) :
        Handle([endpoint |-> "patient_history", patient_id |-> p],
               patient_history(db, nextOid, p))

ListPatients == Handle([endpoint |-> "list_patients"], list_patients(db, nextOid))

CreateAppointment ==
    \E p \in PatientIds(db), d \in DoctorIds(db), m \in PaymentMethods :
        Handle([endpoint |-> "create_appointment", patient_id |-> p, doctor_id |-> d],
               create_appointment(db, nextOid, p,
                   [doctor_id |-> d, scheduled_at |-> ScheduledAt, reason |-> None,
                    payment_method |-> m]))

GetPatientAppointments ==
    \E p \in PatientIds(db) :
        Handle([endpoint |-> "get_patient_appointments", patient_id |-> p],
               get_patient_appointments(db, nextOid, p))

AddPrescription ==
    \E d \in DoctorIds(db), a \in ParsedIds(db, "appointment") :
        Handle([endpoint |-> "add_prescription", doctor_id |-> d, appointment_id |-> a],
               add_prescription(db, nextOid, d,
                   [appointment_id |-> a, notes |-> None, medications |-> <<>>,
                    follow_up_date |-> None]))

GetPrescriptionByAppointment ==
    \E a \in ComparedIds(db, "appointment") :
        Handle([endpoint |-> "get_prescription_by_appointment", appointment_id |-> a],
               get_prescription_by_appointment(db, nextOid, a))

UpdatePayment ==
    \E a \in ParsedIds(db, "appointment"), st \in PaymentStatuses :
        Handle([endpoint |-> "update_payment", appointment_id |-> a, status |-> st],
               update_payment(db, nextOid, a, [status |-> st]))

GenerateBill ==
    \E q \in BillRequests(db) :
        Handle([endpoint |-> "generate_bill", appointment_id |-> q.appointment_id,
                operation_id |-> q.operation_id, roomtype_name |-> q.roomtype_name],
               generate_bill(db, nextOid, q.appointment_id,
                   [operation_id |-> q.operation_id, roomtype_name |-> q.roomtype_name]))

AdminCreateAppointment ==
    \E p \in PatientIds(db), d \in DoctorIds(db) :
        Handle([endpoint |-> "admin_create_appointment", patient_id |-> p, doctor_id |-> d],
               admin_create_appointment(db, nextOid,
                   [patient_id |-> p, doctor_id |-> d, scheduled_at |-> ScheduledAt,
                    reason |-> None]))

AdminGetAvailability ==
    \E d \in DoctorIds(db) :
        Handle([endpoint |-> "admin_get_availability", doctor_id |-> d],
               admin_get_availability(db, nextOid, d))

AdminGetBilling ==
    \E a \in ComparedIds(db, "appointment") :
        Handle([endpoint |-> "admin_get_billing", appointment_id |-> a],
               admin_get_billing(db, nextOid, a))

AdminMarkCodPaid ==
    \E a \in ParsedIds(db, "appointment") :
        Handle([endpoint |-> "admin_mark_cod_paid", appointment_id |-> a],
               admin_mark_cod_paid(db, nextOid, a))

CreateOperation ==
    \E price \in PriceInputs :
        Handle([endpoint |-> "create_operation", base_price |-> price],
               create_operation(db, nextOid, [name |-> "surgery", base_price |-> price]))

CreateRoomtype ==
    \E nm \in RoomNames, price \in RoomPriceInputs :
        Handle([endpoint |-> "create_roomtype", name |-> nm, price_per_day |-> price],
               create_roomtype(db, nextOid, [name |-> nm, price_per_day |-> price]))

CreateInsurance ==
    \E body \in InsuranceInputs :
        Handle([endpoint |-> "create_insurance", coverage_percent |-> body.coverage_percent],
               create_insurance(db, nextOid, body))

Root == Handle([endpoint |-> "root"], root(db, nextOid))

Next ==
    \/ Login
    \/ ListDoctors
    \/ DoctorAppointments
    \/ DoctorStats
    \/ SetAvailability
    \/ AddUnavailability
    \/ DoctorPatients
    \/ PatientHistory
    \/ ListPatients
    \/ CreateAppointment
    \/ GetPatientAppointments
    \/ AddPrescription
    \/ GetPrescriptionByAppointment
    \/ UpdatePayment
    \/ GenerateBill
    \/ AdminCreateAppointment
    \/ AdminGetAvailability
    \/ AdminGetBilling
    \/ AdminMarkCodPaid
    \/ CreateOperation
    \/ CreateRoomtype
    \/ CreateInsurance
    \/ Root

Spec == Init /\ [][Next]_vars

\* On a seeded store: the requests that write or read what generate_bill
\* reads.
NextBilling ==
    \/ CreateAppointment
    \/ CreateOperation
    \/ CreateRoomtype
    \/ CreateInsurance
    \/ GenerateBill

SpecBilling == InitBilling /\ [][NextBilling]_vars

\* On a seeded store: the requests that write or read what doctor_stats
\* reads.
NextStats ==
    \/ Login
    \/ CreateAppointment
    \/ UpdatePayment
    \/ DoctorStats

SpecStats == InitStats /\ [][NextStats]_vars

\* ------------------------------------------------------ the claims' terms

\* The smallest index of a non-empty set of indices.
FirstIdx(S) == CHOOSE i \in S : \A j \in S : i <= j

Docs(coll) == {db[coll][i] : i \in 1..Len(db[coll])}

\* The last request was generate_bill and it succeeded.
Billed == request.endpoint = "generate_bill" /\ response.status = 200

\* What the last generate_bill request names, read from the store.
BilledAppts == {a \in Docs("appointment") : OidStr(a._id) = request.appointment_id}
OperationAsked == request.operation_id # NoneSeq /\ request.operation_id # <<>>
RoomAsked == request.roomtype_name # None /\ request.roomtype_name # ""
AskedOps == {o \in Docs("operation") : OidStr(o._id) = request.operation_id}
AskedRooms == {i \in 1..Len(db["roomtype"]) :
                  db["roomtype"][i].name = request.roomtype_name}
ExpectedSubtotal ==
    (IF OperationAsked THEN (CHOOSE o \in AskedOps : TRUE).base_price ELSE 0)
    + (IF RoomAsked THEN db["roomtype"][FirstIdx(AskedRooms)].price_per_day ELSE 0)

\* The policy of the billed appointment's patient: the first profile of the
\* patient, the policy it names.
BilledProfiles ==
    {i \in 1..Len(db["patientprofile"]) :
        \E a \in BilledAppts : db["patientprofile"][i].user_id = a.patient_id}
BilledPolicies ==
    IF BilledProfiles = {} THEN {}
    ELSE LET prof == db["patientprofile"][FirstIdx(BilledProfiles)] IN
         IF "insurance_policy_id" \notin DOMAIN prof THEN {}
         ELSE {pol \in Docs("insurancepolicy") : OidStr(pol._id) = prof.insurance_policy_id}
HasPolicy == BilledPolicies # {}
Coverage == (CHOOSE pol \in BilledPolicies : TRUE).coverage_percent
AllowedRooms ==
    LET al == (CHOOSE pol \in BilledPolicies : TRUE).allowed_roomtypes
    IN {al[i] : i \in 1..Len(al)}

\* The Billing document the last request stored is the newest one and
\* carries what the response carries.
BillPersisted ==
    /\ db["billing"] # <<>>
    /\ LET bill == db["billing"][Len(db["billing"])] IN
       /\ OidStr(bill._id) = response.body.billing_id
       /\ bill.appointment_id = request.appointment_id
       /\ bill.subtotal = response.body.subtotal
       /\ bill.insurance_discount = response.body.discount
       /\ bill.total = response.body.total
       /\ bill.details = response.body.details

\* ----------------------------------------------------------------- C1

ParsesAppointmentId(req) ==
    req.endpoint \in {"generate_bill", "add_prescription", "update_payment",
                      "admin_mark_cod_paid"}

\* C2: a request that passes an identifier string that is no 24-character
\* hexadecimal string is answered with 400 and leaves the store unchanged.
C2_InvalidIdIs400 ==
    [][(ParsesAppointmentId(request') /\ ~IsValidOid(request'.appointment_id))
        => (response'.status = 400 /\ db' = db)]_vars

\* ----------------------------------------------------------------- C3

\* A generate_bill request on a stored appointment that names an operation
\* no document carries is answered 404 "Operation not found".
C3_Unknown404 ==
    (/\ request.endpoint = "generate_bill"
     /\ BilledAppts # {}
     /\ OperationAsked /\ IsValidOid(request.operation_id) /\ AskedOps = {})
    => response = HTTPException(404, "Operation not found")

\* C3: the unknown-operation request is answered 404, and every
\* generate_bill request answered 404 leaves every collection exactly as
\* it was: nothing is persisted, in billing or anywhere else.
C3_NotFoundPersistsNothing ==
    /\ []C3_Unknown404
    /\ [][(request'.endpoint = "generate_bill" /\ response'.status = 404)
           => db' = db]_vars

\* Each of the three 404s has been answered on a store that holds documents.
C3_Witness ==
    /\ request.endpoint = "generate_bill"
    /\ response = HTTPException(404, "Operation not found")
    /\ BilledAppts # {}

\* ----------------------------------------------------------------- C4

UsersOf(email, role) ==
    {i \in 1..Len(db["user"]) :
        db["user"][i].email = email /\ db["user"][i].role = role}

ProfilesOf(coll, user) == {p \in Docs(coll) : p.user_id = OidStr(user._id)}

C4_NoDuplicate ==
    /\ \A i, j \in 1..Len(db["user"]) :
          (db["user"][i].email = db["user"][j].email
           /\ db["user"][i].role = db["user"][j].role) => i = j
    /\ \A u \in Docs("user") :
          /\ Cardinality(ProfilesOf("doctorprofile", u)) <= 1
          /\ Cardinality(ProfilesOf("patientprofile", u)) <= 1
          /\ Cardinality(ProfilesOf("doctorprofile", u))
               = (IF u.role = "doctor" THEN 1 ELSE 0)
          /\ Cardinality(ProfilesOf("patientprofile", u))
               = (IF u.role = "patient" THEN 1 ELSE 0)

\* C4: from an empty store the user collection holds at most one document
\* per (email, role) and one profile per doctor or patient; a login for a
\* stored (email, role) returns that user and inserts nothing.
C4_LoginIdempotent ==
    /\ []C4_NoDuplicate
    /\ [][(request'.endpoint = "login"
           /\ UsersOf(request'.email, request'.role) # {})
          => /\ db' = db
             /\ nextOid' = nextOid
             /\ LET u == db["user"][FirstIdx(UsersOf(request'.email, request'.role))]
                IN response' = Ok([user |-> [u EXCEPT !._id = OidStr(@)]])]_vars

\* A login answered with the process's first document after a later insert:
\* the user was already stored when this login came.
C4_Witness ==
    /\ request.endpoint = "login"
    /\ response.status = 200
    /\ response.body.user._id = OidStr(GenOid(1))
    /\ response.body.user.email = request.email
    /\ Len(db["user"]) = 1
    /\ nextOid = 3
    /\ db["operation"] # <<>>

\* ----------------------------------------------------------------- C5

\* C5: every stored policy has coverage_percent in [0,100], every stored
\* operation and room type a price >= 0.
C5_RangesHold ==
    /\ \A pol \in Docs("insurancepolicy") : pol.coverage_percent \in 0..100
    /\ \A o \in Docs("operation") : o.base_price >= 0
    /\ \A r \in Docs("roomtype") : r.price_per_day >= 0

\* ----------------------------------------------------------------- C6

\* The room asked for is stored and the patient's policy does not allow it.
RoomNotCovered ==
    /\ request.endpoint = "generate_bill"
    /\ BilledAppts # {}
    /\ (OperationAsked => AskedOps # {})
    /\ RoomAsked /\ AskedRooms # {}
    /\ HasPolicy /\ request.roomtype_name \notin AllowedRooms

ExpectedDetailKeys ==
    (IF OperationAsked THEN {"operation"} ELSE {}) \cup (IF RoomAsked THEN {"room"} ELSE {})

C7_NoPolicyTotalIsSubtotal ==
    (Billed /\ ~HasPolicy)
    => /\ response.body.discount = 0
       /\ response.body.total = response.body.subtotal

\* ----------------------------------------------------------------- C8

CompletedIdx(d) ==
    {i \in 1..Len(db["appointment"]) :
        db["appointment"][i].doctor_id = d /\ db["appointment"][i].status = "completed"}

DoctorProfiles(d) ==
    {i \in 1..Len(db["doctorprofile"]) : db["doctorprofile"][i].user_id = d}

ExpectedRate(d) ==
    IF DoctorProfiles(d) = {} THEN 100
    ELSE db["doctorprofile"][FirstIdx(DoctorProfiles(d))].rate_per_point

C8_Counts ==
    request.endpoint = "doctor_stats"
    => LET N == Cardinality(CompletedIdx(request.doctor_id)) IN
       /\ response.status = 200
       /\ response.body.treated_patients = N
       /\ response.body.points = N
       /\ response.body.salary = N * ExpectedRate(request.doctor_id)

\* C8: doctor_stats answers treated_patients = points = the number of the
\* doctor's completed appointments and salary = that number times the rate
\* of the doctor's profile (100 without a profile), and changes no document.
C8_Stats ==
    /\ []C8_Counts
    /\ [][request'.endpoint = "doctor_stats" => (db' = db /\ nextOid' = nextOid)]_vars

\* Two completed appointments at rate 250, beside appointments that do not
\* count.
C8_Witness ==
    /\ request.endpoint = "doctor_stats"
    /\ response.body.treated_patients = 2
    /\ response.body.salary = 500
    /\ Len(db["appointment"]) > 2

\* ----------------------------------------------------------------- C9

PaymentFields == {"payment_method", "payment_status"}

SameBut(old, new, fields) ==
    /\ DOMAIN new \ fields = DOMAIN old \ fields
    /\ \A f \in DOMAIN old \ fields : new[f] = old[f]

\* C9: no step deletes a document; the only change to a stored document is
\* update_payment setting the named appointment's payment_status, or
\* admin_mark_cod_paid setting the named appointment's payment_method and
\* payment_status.
C9_Frame ==
    [][\A c \in Collections :
         /\ Len(db'[c]) >= Len(db[c])
         /\ \A i \in 1..Len(db[c]) :
              \/ db'[c][i] = db[c][i]
              \/ /\ c = "appointment"
                 /\ OidStr(db[c][i]._id) = request'.appointment_id
                 /\ \/ /\ request'.endpoint = "update_payment"
                       /\ SameBut(db[c][i], db'[c][i], {"payment_status"})
                       /\ db'[c][i].payment_status = request'.status
                    \/ /\ request'.endpoint = "admin_mark_cod_paid"
                       /\ SameBut(db[c][i], db'[c][i], PaymentFields)
                       /\ db'[c][i].payment_method = "cod"
                       /\ db'[c][i].payment_status = "paid"]_vars

\* Of two appointments, update_payment has changed the one it names.
C9_Witness ==
    /\ request.endpoint = "update_payment"
    /\ Len(db["appointment"]) = 2
    /\ \E i, j \in 1..2 :
          /\ OidStr(db["appointment"][i]._id) = request.appointment_id
          /\ db["appointment"][i].payment_status = request.status
          /\ db["appointment"][j].payment_status = "pending"

\* ---------------------------------------------------------------- C10

\* C10: from an empty store every appointment has status "scheduled", and
\* doctor_stats answers 0, 0 and 0.
C10_AlwaysScheduled ==
    /\ \A a \in Docs("appointment") : a.status = "scheduled"
    /\ request.endpoint = "doctor_stats"
       => response.body = [treated_patients |-> 0, points |-> 0, salary |-> 0]

\* doctor_stats for a doctor whose appointment has been paid for.
C10_Witness ==
    /\ request.endpoint = "doctor_stats"
    /\ \E a \in Docs("appointment") :
          /\ a.doctor_id = request.doctor_id
          /\ a.payment_status # "pending"
    /\ response.body.salary = 0
====
